---- MODULE Spec2Model ----
(***************************************************************************)
(* htmlgen: a tree of renderable nodes (Element, HtmlStr, HtmlSequence)   *)
(* rendered to HTML text, and a Registry of per-class CSS bodies.         *)
(*                                                                         *)
(* Text is modelled character by character: a Python str is a sequence of *)
(* one-character strings, so that escaping, substitution, indentation and *)
(* line structure are computed and can be observed.                       *)
(*                                                                         *)
(* Three usage sessions of the library are modelled, each with its own    *)
(* specification:                                                          *)
(*   SpecRender    builds a node tree with containing() and renders it    *)
(*   SpecElement   mutates one Element (with_attribute, with_class,       *)
(*                 with_data) and serialises its attributes               *)
(*   SpecRegistry  registers styles, invokes wrapped builders and renders *)
(*                 the stylesheet                                          *)
(***************************************************************************)
EXTENDS Integers, Sequences, FiniteSets, TLC

VARIABLES tree, out, el, res, styles, wrappers, last

vars == <<tree, out, el, res, styles, wrappers, last>>

-----------------------------------------------------------------------------
(* Characters and strings *)

NL == "\n"
SP == " "

\* str.join("", parts)
RECURSIVE Cat(_)
Cat(parts) ==
    IF parts = <<>> THEN <<>> ELSE Head(parts) \o Cat(Tail(parts))

\* sep.join(parts)
RECURSIVE Join(_, _)
Join(sep, parts) ==
    IF parts = <<>> THEN <<>>
    ELSE IF Len(parts) = 1 THEN parts[1]
    ELSE parts[1] \o sep \o Join(sep, Tail(parts))

\* str.replace(c, r) for a one-character pattern c
RECURSIVE Replace(_, _, _)
Replace(s, c, r) ==
    IF s = <<>> THEN <<>>
    ELSE (IF Head(s) = c THEN r ELSE <<Head(s)>>) \o Replace(Tail(s), c, r)

StartsWith(s, p) ==
    /\ Len(p) <= Len(s)
    /\ SubSeq(s, 1, Len(p)) = p

EndsWith(s, p) ==
    /\ Len(p) <= Len(s)
    /\ SubSeq(s, Len(s) - Len(p) + 1, Len(s)) = p

\* the positions at which sub occurs in s
Occurrences(s, sub) ==
    {i \in 1..(Len(s) - Len(sub) + 1) : SubSeq(s, i, i + Len(sub) - 1) = sub}

Contains(s, sub) == Occurrences(s, sub) # {}

Chars(s) == {s[i] : i \in 1..Len(s)}

\* Attribute values and optional strings: a str, True, False or None
S(chars) == [tag |-> "str", v |-> chars]
None == [tag |-> "None", v |-> <<>>]
True == [tag |-> "True", v |-> <<>>]
False == [tag |-> "False", v |-> <<>>]

-----------------------------------------------------------------------------
(* html.escape(s, quote=True): & first, then < > " ' *)

html_escape(s) ==
    Replace(Replace(Replace(Replace(Replace(s,
        "&", <<"&", "a", "m", "p", ";">>),
        "<", <<"&", "l", "t", ";">>),
        ">", <<"&", "g", "t", ";">>),
        "\"", <<"&", "q", "u", "o", "t", ";">>),
        "'", <<"&", "#", "x", "2", "7", ";">>)

-----------------------------------------------------------------------------
(* Tag tables *)

div == <<"d", "i", "v">>
br == <<"b", "r">>
pre == <<"p", "r", "e">>

\* the members of the tag tables that the sessions use
NO_INDENT_ELEMENTS == {pre}
VOID_ELEMENTS == {br}
ALL_ELEMENTS == {div, br, pre}

-----------------------------------------------------------------------------
(* dict: an insertion-ordered sequence of <<key, value>> pairs *)

Keys(d) == {d[i][1] : i \in 1..Len(d)}

HasKey(d, k) == k \in Keys(d)

IndexOf(d, k) == CHOOSE i \in 1..Len(d) : d[i][1] = k

\* d.get(k): None when k is absent
Get(d, k) == IF HasKey(d, k) THEN d[IndexOf(d, k)][2] ELSE None

\* d[k] = v: an existing key keeps its position
DictSet(d, k, v) ==
    IF HasKey(d, k)
    THEN [d EXCEPT ![IndexOf(d, k)] = <<k, v>>]
    ELSE Append(d, <<k, v>>)

\* del d[k]
DictDel(d, k) ==
    LET i == IndexOf(d, k)
    IN SubSeq(d, 1, i - 1) \o SubSeq(d, i + 1, Len(d))

\* d.update(pairs)
RECURSIVE DictUpdate(_, _)
DictUpdate(d, pairs) ==
    IF pairs = <<>> THEN d
    ELSE DictUpdate(DictSet(d, Head(pairs)[1], Head(pairs)[2]), Tail(pairs))

-----------------------------------------------------------------------------
(* set: a duplicate-free sequence, in the set's current iteration order.   *)
(* The iteration order of a set of str is the interpreter's (hash order), *)
(* so adding a member yields every position it may take.                  *)

Members(q) == {q[i] : i \in 1..Len(q)}

\* the results set.add(x) can produce
SetAdd(q, x) ==
    IF x \in Members(q) THEN {q}
    ELSE {SubSeq(q, 1, i) \o <<x>> \o SubSeq(q, i + 1, Len(q)) : i \in 0..Len(q)}

\* the results set.update(xs) can produce
RECURSIVE SetUpdate(_, _)
SetUpdate(q, xs) ==
    IF xs = <<>> THEN {q}
    ELSE UNION {SetUpdate(r, Tail(xs)) : r \in SetAdd(q, Head(xs))}

\* str.split(): the maximal runs of non-whitespace characters
RECURSIVE SplitFrom(_, _, _)
SplitFrom(s, i, word) ==
    IF i > Len(s) THEN (IF word = <<>> THEN <<>> ELSE <<word>>)
    ELSE IF s[i] \in {SP, NL}
         THEN (IF word = <<>> THEN <<>> ELSE <<word>>) \o SplitFrom(s, i + 1, <<>>)
         ELSE SplitFrom(s, i + 1, Append(word, s[i]))

split(s) == SplitFrom(s, 1, <<>>)

-----------------------------------------------------------------------------
(* Nodes. Every node is a record with the same fields; a field a variant  *)
(* does not have is empty.                                                 *)

HtmlStr(s) ==
    [kind |-> "HtmlStr", type |-> <<>>, attributes |-> <<>>, classes |-> <<>>,
     children |-> <<>>, s |-> s]

HtmlSequence(children) ==
    [kind |-> "HtmlSequence", type |-> <<>>, attributes |-> <<>>,
     classes |-> <<>>, children |-> children, s |-> <<>>]

\* the dataclass fields, before __post_init__
ElementFields(type, attributes, children, classes) ==
    [kind |-> "Element", type |-> type, attributes |-> attributes,
     classes |-> classes, children |-> children, s |-> <<>>]

\* Element.__post_init__: the elements that construction can yield
Element_post_init(e) ==
    LET class_str == Get(e.attributes, <<"c", "l", "a", "s", "s">>)
    IN IF class_str # None
       THEN {[e EXCEPT !.classes = q,
                       !.attributes =
                           DictDel(e.attributes, <<"c", "l", "a", "s", "s">>)]
             : q \in SetUpdate(e.classes, split(class_str.v))}
       ELSE {e}

\* Element(type, attributes=attributes)
Element(type, attributes) ==
    Element_post_init(ElementFields(type, attributes, <<>>, <<>>))

\* HtmlStr.escape
HtmlStr_escape(s) == HtmlStr(html_escape(s))

\* void as the no-indent test: variant
Element_void_noindent(e) == e.type \in NO_INDENT_ELEMENTS

\* Element.void
Element_void(e) == e.type \in VOID_ELEMENTS

\* must_be_inline of the three variants
RECURSIVE must_be_inline(_)
must_be_inline(n) ==
    CASE n.kind = "Element" -> FALSE
      [] n.kind = "HtmlStr" -> TRUE
      [] n.kind = "HtmlSequence" ->
            \E i \in 1..Len(n.children) : must_be_inline(n.children[i])

-----------------------------------------------------------------------------
(* Attribute serialisation and tags *)

\* value is False or None is emitted as an empty value: variant
render_attributes_none_quoted(attrs, classes) ==
    LET class_item ==
            IF classes # <<>>
            THEN << <<"c", "l", "a", "s", "s", "=", "\"">>
                    \o Join(<<SP>>, [i \in 1..Len(classes) |-> html_escape(classes[i])])
                    \o <<"\"">> >>
            ELSE <<>>
        item(a) ==
            IF a[2] = True THEN <<a[1]>>
            ELSE << a[1] \o <<"=", "\"">> \o html_escape(a[2].v) \o <<"\"">> >>
        rendered_attrs ==
            class_item \o Cat([i \in 1..Len(attrs) |-> item(attrs[i])])
    IN Cat([i \in 1..Len(rendered_attrs) |-> <<SP>> \o rendered_attrs[i]])

\* render_attributes(attrs, classes)
render_attributes(attrs, classes) ==
    LET class_item ==
            IF classes # <<>>
            THEN << <<"c", "l", "a", "s", "s", "=", "\"">>
                    \o Join(<<SP>>, [i \in 1..Len(classes) |-> html_escape(classes[i])])
                    \o <<"\"">> >>
            ELSE <<>>
        item(a) ==
            IF a[2] = False \/ a[2] = None THEN <<>>
            ELSE IF a[2] = True THEN <<a[1]>>
            ELSE << a[1] \o <<"=", "\"">> \o html_escape(a[2].v) \o <<"\"">> >>
        rendered_attrs ==
            class_item \o Cat([i \in 1..Len(attrs) |-> item(attrs[i])])
    IN Cat([i \in 1..Len(rendered_attrs) |-> <<SP>> \o rendered_attrs[i]])

\* render_tag: contents is a str (tag "str") or None. The warning logged
\* for a type outside ALL_ELEMENTS does not change the returned text.
render_tag(type, attrs, classes, contents, indent, inline) ==
    LET noindent == type \in NO_INDENT_ELEMENTS
        indent1 == IF noindent THEN <<>> ELSE indent
        inline1 == IF noindent THEN TRUE ELSE inline
        rendered_attrs == render_attributes(attrs, classes)
        open_tag == <<"<">> \o type \o rendered_attrs \o <<">">>
        close_tag == <<"<", "/">> \o type \o <<">">>
    IN IF contents = None
       THEN indent1 \o <<"<">> \o type \o rendered_attrs \o <<"/", ">">>
       ELSE IF inline1
            THEN indent1 \o open_tag \o contents.v \o close_tag
            ELSE indent1 \o open_tag \o <<NL>> \o contents.v \o <<NL>>
                 \o indent1 \o close_tag

RECURSIVE render(_, _, _)

\* Element.render
Element_render(e, indent, inline) ==
    LET inline1 ==
            must_be_inline(e)
            \/ \E i \in 1..Len(e.children) : must_be_inline(e.children[i])
        contents ==
            IF Element_void(e) THEN None
            ELSE IF inline1
                 THEN S(Cat([i \in 1..Len(e.children) |->
                                render(e.children[i], <<>>, TRUE)]))
                 ELSE S(Join(<<NL>>, [i \in 1..Len(e.children) |->
                                render(e.children[i], indent \o <<SP, SP>>, FALSE)]))
    IN render_tag(e.type, e.attributes, e.classes, contents, indent, inline1)

\* HtmlSequence.render
HtmlSequence_render(n, indent, inline) ==
    IF inline
    THEN Cat([i \in 1..Len(n.children) |-> render(n.children[i], <<>>, TRUE)])
    ELSE Join(<<NL>>, [i \in 1..Len(n.children) |->
                          render(n.children[i], indent, FALSE)])

\* HtmlStr.render
HtmlStr_render(n, indent, inline) == indent \o n.s

\* HtmlRenderable.render, dispatched on the variant
render(n, indent, inline) ==
    CASE n.kind = "Element" -> Element_render(n, indent, inline)
      [] n.kind = "HtmlStr" -> HtmlStr_render(n, indent, inline)
      [] n.kind = "HtmlSequence" -> HtmlSequence_render(n, indent, inline)

-----------------------------------------------------------------------------
(* Session 1: build a tree with containing() and render its root *)

MaxNodes == 4

TextX == <<"x">>
TextPre == <<SP, "y", NL, "z">>

Indents == {<<>>, <<SP, SP>>}

CLASS == <<"c", "l", "a", "s", "s">>

\* the attribute maps a root element is constructed with
RootAttributes ==
    { <<>>,
      << <<<<"i", "d">>, S(<<"a", "&", "b">>)>>, <<CLASS, S(<<"c">>)>> >> }

\* what containing() is given: a bare str or a node
Contents ==
    {S(TextX), S(TextPre)}
    \cup UNION {Element(t, <<>>) : t \in ALL_ELEMENTS}
    \cup {HtmlSequence(<<e>>) : e \in Element(div, <<>>)}
    \cup {HtmlSequence(<<HtmlStr(TextX)>>)}

isinstance_str(i) == "tag" \in DOMAIN i

RECURSIVE NodeCount(_)
NodeCount(n) ==
    LET Sum[i \in 0..Len(n.children)] ==
            IF i = 0 THEN 0 ELSE Sum[i - 1] + NodeCount(n.children[i])
    IN 1 + Sum[Len(n.children)]

\* the paths (child indices from the root) of the Element nodes of a tree
RECURSIVE ElementPaths(_)
ElementPaths(n) ==
    (IF n.kind = "Element" THEN {<<>>} ELSE {})
    \cup UNION {{<<i>> \o p : p \in ElementPaths(n.children[i])}
                : i \in 1..Len(n.children)}

RECURSIVE NodeAt(_, _)
NodeAt(n, path) ==
    IF path = <<>> THEN n ELSE NodeAt(n.children[Head(path)], Tail(path))

\* Element.containing(*items) on one element
Element_containing(e, items) ==
    [e EXCEPT !.children =
        @ \o [i \in 1..Len(items) |->
                IF isinstance_str(items[i]) THEN HtmlStr(items[i].v)
                ELSE items[i]]]

\* containing() called on the element at path: the element is shared by
\* reference, so the tree holding it sees the new children
RECURSIVE ContainingAt(_, _, _)
ContainingAt(n, path, items) ==
    IF path = <<>> THEN Element_containing(n, items)
    ELSE [n EXCEPT !.children[Head(path)] = ContainingAt(@, Tail(path), items)]

NoOutput == [done |-> FALSE, indent |-> <<>>, inline |-> FALSE, result |-> <<>>]

IdleElement == ElementFields(div, <<>>, <<>>, <<>>)
IdleResult == [op |-> "none"]

InitRender ==
    /\ tree \in UNION {Element(t, a) : t \in ALL_ELEMENTS, a \in RootAttributes}
    /\ out = NoOutput
    /\ el = IdleElement
    /\ res = IdleResult
    /\ styles = <<>>
    /\ wrappers = {}
    /\ last = IdleResult

\* element.containing(item) on any element of the tree; a result rendered
\* before the change is no longer the rendering of the tree and is dropped
Containing ==
    \E path \in ElementPaths(tree), item \in Contents :
        /\ NodeCount(tree)
             + (IF isinstance_str(item) THEN 1 ELSE NodeCount(item)) <= MaxNodes
        /\ tree' = ContainingAt(tree, path, <<item>>)
        /\ out' = NoOutput
        /\ UNCHANGED <<el, res, styles, wrappers, last>>

\* tree.render(indent, inline)
Render ==
    \E indent \in Indents, inline \in BOOLEAN :
        /\ out' = [done |-> TRUE, indent |-> indent, inline |-> inline,
                   result |-> render(tree, indent, inline)]
        /\ UNCHANGED <<tree, el, res, styles, wrappers, last>>

NextRender == Containing \/ Render

SpecRender == InitRender /\ [][NextRender]_vars

-----------------------------------------------------------------------------
(* Properties of rendering *)

IsElement(n) == n.kind = "Element"

HasInlineChild(n) == \E i \in 1..Len(n.children) : must_be_inline(n.children[i])

\* no text payload of the subtree holds a newline
RECURSIVE NoNewlinePayload(_)
NoNewlinePayload(n) ==
    /\ NL \notin Chars(n.s)
    /\ \A i \in 1..Len(n.children) : NoNewlinePayload(n.children[i])

Childless(e) == [e EXCEPT !.children = <<>>]

OpenTag(e) ==
    <<"<">> \o e.type \o render_attributes(e.attributes, e.classes) \o <<">">>

CloseTag(e) == <<"<", "/">> \o e.type \o <<">">>

\* C1: an element with a void tag renders as indent + "<tag" + attributes +
\* "/>" whatever children it was given and whatever indent and inline are
\* passed: the output ends with "/>", has no closing tag, and is the output
\* of the same element without children.
C1_VoidSelfCloses ==
    (out.done /\ IsElement(tree) /\ tree.type \in VOID_ELEMENTS) =>
        /\ out.result =
              out.indent \o <<"<">> \o tree.type
              \o render_attributes(tree.attributes, tree.classes)
              \o <<"/", ">">>
        /\ EndsWith(out.result, <<"/", ">">>)
        /\ ~Contains(out.result, <<"<", "/">>)
        /\ out.result = render(Childless(tree), out.indent, out.inline)

C1_Witness ==
    /\ out.done
    /\ tree.type \in VOID_ELEMENTS
    /\ Len(tree.children) >= 2
    /\ tree.attributes # <<>>
    /\ tree.classes # <<>>
    /\ out.indent # <<>>

\* C2: an element rendered inline (inline=true passed, or a direct child that
\* must be inline) is emitted with all its descendants on one line: when no
\* text payload holds a newline, the output holds no newline and no run of
\* indentation after the element's own indent.
C2_InlineOnOneLine ==
    (/\ out.done
     /\ out.inline \/ HasInlineChild(tree)
     /\ NoNewlinePayload(tree)) =>
        /\ NL \notin Chars(out.result)
        /\ ~Contains(SubSeq(out.result, Len(out.indent) + 1, Len(out.result)),
                     <<SP, SP>>)

\* C3: an element with a no-indent tag renders the same for every indent and
\* inline flag: nothing before the opening tag, no newline around the
\* content, no indentation added inside it.
C3_NoIndentIgnoresIndent ==
    (out.done /\ IsElement(tree) /\ tree.type \in NO_INDENT_ELEMENTS) =>
        /\ StartsWith(out.result, <<"<">> \o tree.type)
        /\ \A indent \in Indents, inline \in BOOLEAN :
              render(tree, indent, inline) = out.result

\* indent followed by two spaces for each of d levels
RECURSIVE Deeper(_, _)
Deeper(indent, d) ==
    IF d = 0 THEN indent ELSE Deeper(indent, d - 1) \o <<SP, SP>>

\* a block level: a non-void, non-no-indent element none of whose direct
\* children must be inline
IsBlockLevel(n) ==
    /\ IsElement(n)
    /\ n.type \notin VOID_ELEMENTS
    /\ n.type \notin NO_INDENT_ELEMENTS
    /\ ~HasInlineChild(n)

\* the elements nested below n through block levels only, each with its
\* depth: <<element, d>>; a sequence is transparent
RECURSIVE BlockNested(_, _)
BlockNested(n, d) ==
    UNION {
        LET c == n.children[i]
        IN CASE c.kind = "Element" ->
                    {<<c, d + 1>>}
                    \cup (IF IsBlockLevel(c) THEN BlockNested(c, d + 1) ELSE {})
             [] c.kind = "HtmlSequence" -> BlockNested(c, d)
             [] OTHER -> {}
        : i \in 1..Len(n.children)}

\* the layout of a block level rendered with inline=false
BlockLayout(e, indent) ==
    indent \o OpenTag(e) \o <<NL>>
    \o Join(<<NL>>, [i \in 1..Len(e.children) |->
                        render(e.children[i], indent \o <<SP, SP>>, FALSE)])
    \o <<NL>> \o indent \o CloseTag(e)

\* an element nested d block levels below the root starts its line with the
\* root's indent and 2*d spaces
StartsItsLine(pair) ==
    LET ind == Deeper(out.indent, pair[2])
        r == render(pair[1], ind, FALSE)
    IN /\ StartsWith(r, ind \o <<"<">>)
       /\ Contains(out.result, <<NL>> \o r \o <<NL>>)

\* a nested element that holds a text node is on one line
TextHolderOnOneLine(pair) ==
    LET e == pair[1]
    IN (/\ \E i \in 1..Len(e.children) : e.children[i].kind = "HtmlStr"
        /\ NoNewlinePayload(e)) =>
            NL \notin Chars(render(e, Deeper(out.indent, pair[2]), FALSE))

\* C7: a block level rendered with indent I and inline=false yields I + open
\* tag, newline, the children rendered with I + two spaces and inline=false
\* joined by newlines, newline, I + close tag; an element (not a no-indent
\* one) nested d block levels below starts its line with I and 2*d spaces,
\* and a nested element that holds a text node is still on one line.
C7_BlockIndentation ==
    (out.done /\ IsBlockLevel(tree) /\ ~out.inline) =>
        /\ out.result = BlockLayout(tree, out.indent)
        /\ \A pair \in BlockNested(tree, 0) :
              /\ pair[1].type \notin NO_INDENT_ELEMENTS => StartsItsLine(pair)
              /\ TextHolderOnOneLine(pair)

\* the layout and the indentation of C7 alone hold
C7_LayoutHolds ==
    (out.done /\ IsBlockLevel(tree) /\ ~out.inline) =>
        /\ out.result = BlockLayout(tree, out.indent)
        /\ \A pair \in BlockNested(tree, 0) :
              pair[1].type \notin NO_INDENT_ELEMENTS => StartsItsLine(pair)

\* a no-indent element nested in block levels starts its line unindented
C7_NestedNoIndentUnindented ==
    (out.done /\ IsBlockLevel(tree) /\ ~out.inline) =>
        \A pair \in BlockNested(tree, 0) :
            pair[1].type \in NO_INDENT_ELEMENTS =>
                StartsWith(render(pair[1], Deeper(out.indent, pair[2]), FALSE),
                           <<"<">>)

-----------------------------------------------------------------------------
(* Session 2: one Element, its builder methods and its attributes *)

MaxAttrs == 3

ID == <<"i", "d">>
ClassC == <<"c">>
ClassD == <<"d", "<">>

\* a value holding every character html.escape rewrites
Quoted == <<"a", "&", "<", ">", "\"", "'">>

AttrValues == {S(Quoted), True, False, None}

\* the attribute maps the element is constructed with
CtorAttributes ==
    { <<>>,
      << <<ID, S(Quoted)>> >>,
      << <<CLASS, S(ClassC \o <<SP>> \o ClassD)>>, <<ID, True>> >>,
      << <<CLASS, S(ClassC)>> >>,
      << <<CLASS, None>> >> }

\* the keyword arguments with_attribute is called with
Kwargs ==
    {<< <<ID, v>> >> : v \in AttrValues}
    \cup {<< <<CLASS, v>> >> : v \in {S(ClassD), None}}

\* the arguments with_class is called with
ClassArgs == {<<ClassC>>, <<ClassD>>, <<ClassD, ClassC>>}

LOWER ==
    {"a", "b", "c", "d", "e", "f", "g", "h", "i", "j", "k", "l", "m",
     "n", "o", "p", "q", "r", "s", "t", "u", "v", "w", "x", "y", "z"}

KeyA == <<"a">>
KeyAB == <<"a", "-", "b">>
KeyUpper == <<"A">>
KeyEmpty == <<>>
KeyHyphen == <<"-", "a">>
KeyDigit == <<"a", "1">>

DataKeys == {KeyA, KeyAB, KeyUpper, KeyEmpty, KeyHyphen, KeyDigit}

DataValue == S(<<"v">>)

\* the dicts with_data is called with: one key, or two distinct keys of
\* which at least one is well-formed
DataDicts ==
    {<< <<k, S(Quoted)>> >> : k \in DataKeys}
    \cup {<< <<ks[1], DataValue>>, <<ks[2], S(Quoted)>> >> :
            ks \in {p \in DataKeys \X DataKeys :
                        /\ p[1] # p[2]
                        /\ {p[1], p[2]} \cap {KeyA, KeyAB} # {}}}

\* the end of the longest run of [a-z-] that starts at position i
RECURSIVE StarEnd(_, _)
StarEnd(s, i) ==
    IF i <= Len(s) /\ s[i] \in LOWER \cup {"-"} THEN StarEnd(s, i + 1) ELSE i

\* DATA_KEY_PATTERN.match(key): a prefix of key matches
DATA_KEY_PATTERN_match(key) ==
    /\ Len(key) >= 1
    /\ key[1] \in LOWER

\* DATA_KEY_PATTERN.fullmatch(key) for [a-z][a-z-]*
DATA_KEY_PATTERN_fullmatch(key) ==
    /\ Len(key) >= 1
    /\ key[1] \in LOWER
    /\ StarEnd(key, 2) = Len(key) + 1

DataPrefix == <<"d", "a", "t", "a", "-">>

\* Element.with_attribute(**attributes)
Element_with_attribute(e, attributes) ==
    [e EXCEPT !.attributes = DictUpdate(@, attributes)]

\* Element.with_class(*classnames): the elements it can yield
Element_with_class(e, classnames) ==
    {[e EXCEPT !.classes = q] : q \in SetUpdate(e.classes, classnames)}

\* with_data that stores each key as it checks it, so that the keys before
\* an ill-formed one are already stored when it raises: variant
Element_with_data_interleaved(e, data) ==
    LET bad == {i \in 1..Len(data) : ~DATA_KEY_PATTERN_fullmatch(data[i][1])}
        n == IF bad = {} THEN Len(data)
             ELSE (CHOOSE i \in bad : \A j \in bad : i <= j) - 1
    IN [raised |-> bad # {},
        element |->
            [e EXCEPT !.attributes =
                DictUpdate(@, [i \in 1..n |->
                                  <<DataPrefix \o data[i][1], data[i][2]>>])]]

\* Element.with_data(data): raised, and the element afterwards
Element_with_data(e, data) ==
    IF \E i \in 1..Len(data) : ~DATA_KEY_PATTERN_fullmatch(data[i][1])
    THEN [raised |-> TRUE, element |-> e]
    ELSE [raised |-> FALSE,
          element |->
              [e EXCEPT !.attributes =
                  DictUpdate(@, [i \in 1..Len(data) |->
                                    <<DataPrefix \o data[i][1], data[i][2]>>])]]

\* what the last call was, what it was given and what it gave back
Result(op, raised, data, returned, output) ==
    [op |-> op, raised |-> raised, data |-> data, returned |-> returned,
     out |-> output]

InitElement ==
    /\ el \in UNION {Element(div, a) : a \in CtorAttributes}
    /\ res = Result("Element", FALSE, <<>>, el, <<>>)
    /\ tree = IdleElement
    /\ out = NoOutput
    /\ styles = <<>>
    /\ wrappers = {}
    /\ last = IdleResult

WithAttribute ==
    \E kw \in Kwargs :
        /\ Len(Element_with_attribute(el, kw).attributes) <= MaxAttrs
        /\ el' = Element_with_attribute(el, kw)
        /\ res' = Result("with_attribute", FALSE, kw, el', <<>>)
        /\ UNCHANGED <<tree, out, styles, wrappers, last>>

WithClass ==
    \E names \in ClassArgs :
        /\ el' \in Element_with_class(el, names)
        /\ res' = Result("with_class", FALSE, <<>>, el', <<>>)
        /\ UNCHANGED <<tree, out, styles, wrappers, last>>

WithData ==
    \E data \in DataDicts :
        LET r == Element_with_data(el, data)
        IN /\ Len(r.element.attributes) <= MaxAttrs
           /\ el' = r.element
           /\ res' = Result("with_data", r.raised, data,
                            IF r.raised THEN IdleElement ELSE el', <<>>)
           /\ UNCHANGED <<tree, out, styles, wrappers, last>>

\* render_attributes(el.attributes, el.classes), as Element.render calls it
RenderAttributes ==
    /\ res' = Result("render_attributes", FALSE, <<>>, el,
                     render_attributes(el.attributes, el.classes))
    /\ UNCHANGED <<el, tree, out, styles, wrappers, last>>

NextElement == WithAttribute \/ WithClass \/ WithData \/ RenderAttributes

SpecElement == InitElement /\ [][NextElement]_vars

-----------------------------------------------------------------------------
(* Properties of attribute serialisation and of the builder methods *)

\* the entity html escaping gives one character
Entity(c) ==
    CASE c = "&" -> <<"&", "a", "m", "p", ";">>
      [] c = "<" -> <<"&", "l", "t", ";">>
      [] c = ">" -> <<"&", "g", "t", ";">>
      [] c = "\"" -> <<"&", "q", "u", "o", "t", ";">>
      [] c = "'" -> <<"&", "#", "x", "2", "7", ";">>
      [] OTHER -> <<c>>

Escaped(s) == Cat([i \in 1..Len(s) |-> Entity(s[i])])

\* one attribute as the output holds it: nothing, the bare name, or
\* name="escaped value", after one space
AttributeItem(a) ==
    CASE a[2] = True -> <<SP>> \o a[1]
      [] a[2] \in {False, None} -> <<>>
      [] OTHER -> <<SP>> \o a[1] \o <<"=", "\"">> \o Escaped(a[2].v) \o <<"\"">>

RECURSIVE AttributeItems(_)
AttributeItems(attrs) ==
    IF attrs = <<>> THEN <<>>
    ELSE AttributeItem(Head(attrs)) \o AttributeItems(Tail(attrs))

ClassItem(classes) ==
    IF classes = <<>> THEN <<>>
    ELSE <<SP>> \o CLASS \o <<"=", "\"">>
         \o Join(<<SP>>, [i \in 1..Len(classes) |-> Escaped(classes[i])])
         \o <<"\"">>

\* C6: render_attributes emits a single class="..." of the space-joined
\* escaped class names when there is a class, then per attribute in map
\* order the bare name for True, nothing for False or None, and
\* name="escaped value" for a str, each item after exactly one space.
C6_RenderAttributes ==
    res.op = "render_attributes" =>
        /\ res.out = ClassItem(el.classes) \o AttributeItems(el.attributes)
        /\ \A i \in 1..Len(el.attributes) :
              el.attributes[i][2] \in {False, None} /\ el.attributes[i][1] # CLASS
                  => ~Contains(res.out, <<SP>> \o el.attributes[i][1])
        /\ ~Contains(res.out, <<SP, SP>>)

C6_Witness ==
    /\ res.op = "render_attributes"
    /\ Len(el.classes) = 2
    /\ \E i, j, k \in 1..Len(el.attributes) :
          /\ el.attributes[i][2] = True
          /\ el.attributes[j][2] = S(Quoted)
          /\ el.attributes[k][2] = None

\* a lowercase letter followed by lowercase letters or hyphens
WellFormedKey(key) ==
    /\ key # <<>>
    /\ key[1] \in LOWER
    /\ \A i \in 2..Len(key) : key[i] \in LOWER \cup {"-"}

\* C8: with_data(d) raises when some key of d is not a lowercase letter
\* followed by lowercase letters or hyphens, and otherwise sets data-<key> to
\* the value for every key and returns the element; an uppercase key, an
\* empty key, a key starting with a hyphen and a key with a digit are
\* rejected.
C8_WithDataValidates ==
    res.op = "with_data" =>
        /\ res.raised <=> \E i \in 1..Len(res.data) : ~WellFormedKey(res.data[i][1])
        /\ ~res.raised =>
              /\ \A i \in 1..Len(res.data) :
                    /\ HasKey(el.attributes, DataPrefix \o res.data[i][1])
                    /\ Get(el.attributes, DataPrefix \o res.data[i][1])
                          = res.data[i][2]
              /\ res.returned = el
        /\ (\E i \in 1..Len(res.data) :
               res.data[i][1] \in {KeyUpper, KeyEmpty, KeyHyphen, KeyDigit})
              => res.raised

C8_Witness ==
    /\ res.op = "with_data"
    /\ ~res.raised
    /\ Len(res.data) = 2
    /\ Len(el.attributes) = 3

C8_WitnessRejected ==
    /\ res.op = "with_data"
    /\ res.raised
    /\ res.data[1][1] = KeyA
    /\ res.data[2][1] = KeyDigit

\* C10: a value supplied under the attribute name "class" is merged into
\* the class set and the attribute map holds no "class" value, so the
\* opening tag holds at most one class attribute.
C10_ClassAlwaysMerged ==
    /\ \A i \in 1..Len(el.attributes) :
          el.attributes[i][1] = CLASS => el.attributes[i][2] = None
    /\ res.op = "render_attributes" =>
          Cardinality(Occurrences(res.out, <<SP>> \o CLASS \o <<"=">>)) <= 1

\* the constructor does merge a class attribute
C10_ConstructorMerges ==
    res.op = "Element" =>
        \A i \in 1..Len(el.attributes) :
            el.attributes[i][1] = CLASS => el.attributes[i][2] = None

\* a with_data call that raised leaves the element as it was
WithDataAllOrNothing ==
    (res'.op = "with_data" /\ res'.raised) =>
        /\ el'.attributes = el.attributes
        /\ el'.classes = el.classes
        /\ el'.children = el.children
        /\ el' = el

\* C11: with_data is all-or-nothing: when with_data(d) raises because some
\* key of d is ill-formed, the element's attribute map, class set and
\* children are what they were before the call, wherever the ill-formed key
\* stands in d and however many well-formed keys come before it.
C11_WithDataAllOrNothing == [][WithDataAllOrNothing]_vars

\* a call that raised on its second key, after a well-formed first key, on
\* an element that already holds attributes and classes
C11_Witness ==
    /\ res.op = "with_data"
    /\ res.raised
    /\ Len(res.data) = 2
    /\ WellFormedKey(res.data[1][1])
    /\ ~WellFormedKey(res.data[2][1])
    /\ el.attributes # <<>>
    /\ el.classes # <<>>
    /\ ~HasKey(el.attributes, DataPrefix \o res.data[1][1])

-----------------------------------------------------------------------------
(* Session 3: the style Registry *)

Whitespace == {SP, NL}

\* str.splitlines(keepends=True)
RECURSIVE SplitLinesFrom(_, _, _)
SplitLinesFrom(s, i, line) ==
    IF i > Len(s) THEN (IF line = <<>> THEN <<>> ELSE <<line>>)
    ELSE IF s[i] = NL
         THEN <<Append(line, NL)>> \o SplitLinesFrom(s, i + 1, <<>>)
         ELSE SplitLinesFrom(s, i + 1, Append(line, s[i]))

splitlines(s) == SplitLinesFrom(s, 1, <<>>)

\* the number of leading spaces of a line
RECURSIVE LeadingSpaces(_)
LeadingSpaces(line) ==
    IF line # <<>> /\ Head(line) = SP THEN 1 + LeadingSpaces(Tail(line)) ELSE 0

IsBlank(line) == Chars(line) \subseteq Whitespace

\* str.strip()
RECURSIVE lstrip(_)
lstrip(s) ==
    IF s # <<>> /\ Head(s) \in Whitespace THEN lstrip(Tail(s)) ELSE s

RECURSIVE rstrip(_)
rstrip(s) ==
    IF s # <<>> /\ s[Len(s)] \in Whitespace
    THEN rstrip(SubSeq(s, 1, Len(s) - 1)) ELSE s

strip(s) == rstrip(lstrip(s))

\* textwrap.dedent(text), for text indented with spaces: a whitespace-only
\* line loses its spaces, every other line loses the common margin
textwrap_dedent(text) ==
    LET lines == splitlines(text)
        indents == {LeadingSpaces(lines[i]) :
                       i \in {j \in 1..Len(lines) : ~IsBlank(lines[j])}}
        margin == IF indents = {} THEN 0
                  ELSE CHOOSE m \in indents : \A k \in indents : m <= k
        cut(line) ==
            IF IsBlank(line)
            THEN (IF line # <<>> /\ line[Len(line)] = NL THEN <<NL>> ELSE <<>>)
            ELSE SubSeq(line, margin + 1, Len(line))
    IN Cat([i \in 1..Len(lines) |-> cut(lines[i])])

\* textwrap.indent(text, prefix): whitespace-only lines get no prefix
textwrap_indent(text, prefix) ==
    LET lines == splitlines(text)
    IN Cat([i \in 1..Len(lines) |->
              IF IsBlank(lines[i]) THEN lines[i] ELSE prefix \o lines[i]])

\* str.removesuffix(suffix)
removesuffix(s, suffix) ==
    IF suffix # <<>> /\ EndsWith(s, suffix)
    THEN SubSeq(s, 1, Len(s) - Len(suffix)) ELSE s

\* func.__name__.replace("_", "-").removesuffix("-")
classname_of(name) == removesuffix(Replace(name, "_", <<"-">>), <<"-">>)

\* Registry.render_stylesheet
Registry_render_stylesheet(st) ==
    Join(<<NL>>,
         [i \in 1..Len(st) |->
            <<".">> \o st[i][1] \o <<SP, "{", NL>>
            \o textwrap_indent(st[i][2].v, <<SP, SP>>)
            \o <<NL, "}">>])

\* a registration that keeps the body already stored: variant
Registry_style_first_wins(st, css, name) ==
    LET classname == classname_of(name)
    IN [classname |-> classname,
        warned |-> HasKey(st, classname),
        styles |-> IF css # None /\ ~HasKey(st, classname)
                   THEN DictSet(st, classname, S(strip(textwrap_dedent(css.v))))
                   ELSE st]

\* a registration that removes the class before storing it: variant
Registry_style_reinsert(st, css, name) ==
    LET classname == classname_of(name)
        rest == IF HasKey(st, classname) THEN DictDel(st, classname) ELSE st
    IN [classname |-> classname,
        warned |-> HasKey(st, classname),
        styles |-> IF css # None
                   THEN Append(rest, <<classname, S(strip(textwrap_dedent(css.v)))>>)
                   ELSE rest]

\* Registry.style(css)(func): the decorator applied to a function named name
Registry_style(st, css, name) ==
    LET classname == classname_of(name)
    IN [classname |-> classname,
        warned |-> HasKey(st, classname),
        styles |-> IF css # None
                   THEN DictSet(st, classname, S(strip(textwrap_dedent(css.v))))
                   ELSE st]

\* the names of the decorated builder functions
FuncNames ==
    { <<"a", "_", "b">>, <<"a", "_", "b", "_">>, <<"a", "_", "b", "_", "_">>,
      <<"e">> }

\* the css arguments of style()
CssArgs ==
    { None,
      S(<<"&", "x">>),
      S(<<"w">>),
      S(<<NL, SP, SP, "y", NL, SP, SP, SP, "&", "z", NL, SP>>) }

Event(op, classname, css, warned, prev, output, element) ==
    [op |-> op, classname |-> classname, css |-> css, warned |-> warned,
     prev |-> prev, out |-> output, element |-> element]

InitRegistry ==
    /\ styles = <<>>
    /\ wrappers = {}
    /\ last = Event("Registry", <<>>, None, FALSE, None, <<>>, IdleElement)
    /\ tree = IdleElement
    /\ out = NoOutput
    /\ el = IdleElement
    /\ res = IdleResult

\* @r.style(css) on a function: registers, and leaves a wrapper behind
Style ==
    \E css \in CssArgs, name \in FuncNames :
        LET r == Registry_style(styles, css, name)
        IN /\ styles' = r.styles
           /\ wrappers' = wrappers \cup {r.classname}
           /\ last' = Event("style", r.classname, css, r.warned,
                            Get(styles, r.classname), <<>>, IdleElement)
           /\ UNCHANGED <<tree, out, el, res>>

\* a wrapped builder is called: the element it builds gets the class
Invoke ==
    \E classname \in wrappers, a \in {<<>>, << <<CLASS, S(ClassC)>> >>} :
        \E result \in Element(div, a) :
            \E classed \in Element_with_class(result, <<classname>>) :
                /\ last' = Event("wrapper", classname, None, FALSE, None,
                                 <<>>, classed)
                /\ UNCHANGED <<styles, wrappers, tree, out, el, res>>

RenderStylesheet ==
    /\ last' = Event("render_stylesheet", <<>>, None, FALSE, None,
                     Registry_render_stylesheet(styles), IdleElement)
    /\ UNCHANGED <<styles, wrappers, tree, out, el, res>>

NextRegistry == Style \/ Invoke \/ RenderStylesheet

SpecRegistry == InitRegistry /\ [][NextRegistry]_vars

-----------------------------------------------------------------------------
(* Properties of the Registry *)

KeySeq(d) == [i \in 1..Len(d) |-> d[i][1]]

IsPrefix(p, q) == Len(p) <= Len(q) /\ SubSeq(q, 1, Len(p)) = p

\* the line that opens the block of a class
BlockHeader(classname) == <<".">> \o classname \o <<SP, "{", NL>>

C5_AmpersandSubstituted ==
    last.op = "render_stylesheet" =>
        /\ "&" \notin Chars(last.out)
        /\ \A i \in 1..Len(styles) :
              Contains(last.out,
                       textwrap_indent(
                           Replace(styles[i][2].v, "&", <<".">> \o styles[i][1]),
                           <<SP, SP>>))

\* no step removes or reorders a registered class, and calling a wrapped
\* builder or render_stylesheet leaves the registry as it was
RegistryGrows ==
    /\ IsPrefix(KeySeq(styles), KeySeq(styles'))
    /\ last'.op \in {"wrapper", "render_stylesheet"} => styles' = styles

\* the stylesheet holds one block per registered class, in the order of
\* first registration
OneBlockPerClass ==
    last.op = "render_stylesheet" =>
        /\ Cardinality(Occurrences(last.out, <<SP, "{", NL>>)) = Len(styles)
        /\ \A i \in 1..Len(styles) :
              Cardinality(Occurrences(last.out, BlockHeader(styles[i][1]))) = 1
        /\ \A i, j \in 1..Len(styles) :
              i < j =>
                  \A a \in Occurrences(last.out, BlockHeader(styles[i][1])),
                     b \in Occurrences(last.out, BlockHeader(styles[j][1])) :
                      a < b
        /\ Cardinality(Occurrences(last.out, <<NL, "}">>)) = Len(styles)
        /\ styles # <<>> => EndsWith(last.out, <<NL, "}">>)

\* C9: the registry only grows: a registered class name is never removed,
\* wrapped builders and render_stylesheet leave the registry unchanged, and
\* render_stylesheet emits exactly one block per registered class name in
\* order of first registration.
C9_RegistryMonotonic == [][RegistryGrows]_vars /\ []OneBlockPerClass

C9_Witness ==
    /\ last.op = "render_stylesheet"
    /\ Len(styles) = 3
    /\ \E i \in 1..Len(styles) : "&" \in Chars(styles[i][2].v)

====
